---- MODULE Spec2Model ----
(***************************************************************************)
(* Row enrichment engine of the bulk API tool (src/app.py):                *)
(* resolve_value, process_single_row, the "Test First Row" handler and     *)
(* the "Process All Rows" handler with its ThreadPoolExecutor.             *)
(*                                                                         *)
(* Python values are modelled as tagged records:                           *)
(*   Str(s), Num(n), Obj(f), Arr(q), Malformed (a body json() rejects).    *)
(* A Python str that takes part in substitution (url_template, a query     *)
(* value spec, base_url) is a sequence of tokens: Lit(s) a piece of        *)
(* literal text, Ph(c) the text "{c}", Slash the character "/".            *)
(***************************************************************************)
EXTENDS Integers, Sequences, FiniteSets, TLC

\* ------------------------------------------------------------- bounds
\* rows of the table in the scenario that saturates the worker pool
PoolRows == 6
\* rows of the table in the scenarios with multi-step pipelines
RichRows == 2
\* rows of the table in the scenario that also runs "Test First Row"
TraceRows == 1

\* ------------------------------------------------------------- values
Str(s) == [k |-> "str", s |-> s]
Num(n) == [k |-> "num", n |-> n]
Obj(f) == [k |-> "obj", f |-> f]
Arr(q) == [k |-> "arr", q |-> q]
Malformed == [k |-> "malformed"]
\* the Python literal "" written into a cell
EmptyStr == Str("")
\* the Python literal {}
EmptyObj == Obj(<<>>)

Lit(s) == [t |-> "lit", s |-> s]
Ph(c) == [t |-> "ph", s |-> c]
Slash == [t |-> "slash", s |-> "/"]

Digits == <<"0", "1", "2", "3", "4", "5", "6", "7", "8", "9">>

RECURSIVE NumStr(_)
\* str(n) of a non-negative int
NumStr(n) == IF n < 10 THEN Digits[n + 1] ELSE NumStr(n \div 10) \o Digits[(n % 10) + 1]

\* str(v) as a token sequence; str("") is the empty text
PyStr(v) ==
    CASE v.k = "str" -> IF v.s = "" THEN <<>> ELSE <<Lit(v.s)>>
      [] v.k = "num" -> <<Lit(NumStr(v.n))>>
      [] v.k = "obj" -> <<Lit("{..}")>>
      [] v.k = "arr" -> <<Lit("[..]")>>

\* row_data.get(col, "")
RowGet(row, col) == IF col \in DOMAIN row THEN row[col] ELSE EmptyStr

\* row_data[col] = val
RowSet(row, col, val) == (col :> val) @@ row

RECURSIVE Replace(_, _, _)
\* text.replace("{name}", by): every occurrence
Replace(text, name, by) ==
    IF text = <<>> THEN <<>>
    ELSE IF Head(text) = Ph(name) THEN by \o Replace(Tail(text), name, by)
    ELSE <<Head(text)>> \o Replace(Tail(text), name, by)

RECURSIVE FirstPh(_)
\* re.search(r"\{(.*?)\}", text): index of the first placeholder, 0 if none
FirstPh(text) ==
    IF text = <<>> THEN 0
    ELSE IF Head(text).t = "ph" THEN 1
    ELSE LET r == FirstPh(Tail(text)) IN IF r = 0 THEN 0 ELSE r + 1

\* the value None, and a returned str
PyNone == [some |-> FALSE, text |-> <<>>]
PySome(text) == [some |-> TRUE, text |-> text]
\* Python truthiness of a resolve_value result
Truthy(r) == r.some /\ r.text # <<>>

\* resolve_value(val, row_data)
resolve_value(val, row) ==
    IF val = <<>> THEN PyNone
    ELSE LET m == FirstPh(val) IN
         IF m # 0 /\ val[m].s \in DOMAIN row
         THEN PySome(Replace(val, val[m].s, PyStr(row[val[m].s])))
         ELSE PySome(val)

RECURSIVE SubstPath(_, _, _)
\* the path parameter loop: for param_name, csv_col in step['path_map'].items()
SubstPath(url_path, path_map, row) ==
    IF path_map = <<>> THEN url_path
    ELSE SubstPath(Replace(url_path, Head(path_map)[1], PyStr(RowGet(row, Head(path_map)[2]))),
                   Tail(path_map), row)

RECURSIVE RStrip(_)
\* text.rstrip('/')
RStrip(text) ==
    IF text # <<>> /\ text[Len(text)] = Slash THEN RStrip(SubSeq(text, 1, Len(text) - 1))
    ELSE text

RECURSIVE LStrip(_)
\* text.lstrip('/')
LStrip(text) == IF text # <<>> /\ Head(text) = Slash THEN LStrip(Tail(text)) ELSE text

\* full_url = base_url.rstrip('/') + '/' + url_path.lstrip('/')
FullUrl(base, url_path) == RStrip(base) \o <<Slash>> \o LStrip(url_path)

RECURSIVE QueryPayload(_, _)
\* the query parameter loop: keys whose resolved value is falsy are left out
QueryPayload(query_map, row) ==
    IF query_map = <<>> THEN <<>>
    ELSE LET resolved == resolve_value(Head(query_map)[2], row)
             rest == QueryPayload(Tail(query_map), row)
         IN IF Truthy(resolved) THEN <<<<Head(query_map)[1], resolved.text>>>> \o rest
            ELSE rest

\* the request of one step for the current row state
BuildRequest(step, row, base) ==
    [url |-> FullUrl(base, SubstPath(step.url_template, step.path_map, row)),
     params |-> QueryPayload(step.query_map, row)]

\* ------------------------------------------------------------- extraction
RECURSIVE SplitAcc(_, _)
SplitAcc(field, cur) ==
    IF field = <<>> THEN <<cur>>
    ELSE IF Head(field) = "." THEN <<cur>> \o SplitAcc(Tail(field), "")
    ELSE SplitAcc(Tail(field), cur \o Head(field))

\* j_field.split('.'): a json_field is a sequence of name pieces and "."
Split(field) == SplitAcc(field, "")

\* faulty variant: a list body is used as it is
NormalizeRaw(data) == data

\* if isinstance(data, list): data = data[0] if len(data) > 0 else {}
Normalize(data) ==
    IF data.k = "arr" THEN (IF Len(data.q) > 0 THEN data.q[1] ELSE EmptyObj) ELSE data

RECURSIVE Walk(_, _)
\* for key in keys: val = val.get(key, "") if isinstance(val, dict) else ""
Walk(val, keys) ==
    IF keys = <<>> THEN val
    ELSE Walk(IF val.k = "obj" /\ Head(keys) \in DOMAIN val.f THEN val.f[Head(keys)] ELSE EmptyStr,
              Tail(keys))

RECURSIVE ExtractLoop(_, _, _, _)
\* the loop over step['output_map'] of the 200 branch: the row and the trace lines
ExtractLoop(output_map, data, row, dbg) ==
    IF output_map = <<>> THEN [row |-> row, log |-> <<>>]
    ELSE LET m == Head(output_map)
             val == Walk(data, Split(m.json_field))
             wrote == m.json_field # <<>> /\ m.csv_column # ""
             rest == ExtractLoop(Tail(output_map), data,
                                 IF wrote THEN RowSet(row, m.csv_column, val) ELSE row, dbg)
         IN [row |-> rest.row,
             log |-> (IF wrote /\ dbg THEN <<[l |-> "Extracted", val |-> val]>> ELSE <<>>) \o rest.log]

RECURSIVE BlankLoop(_, _)
\* for mapping in step['output_map']: if mapping['csv_column']: row_data[...] = ""
BlankLoop(output_map, row) ==
    IF output_map = <<>> THEN row
    ELSE BlankLoop(Tail(output_map),
                   IF Head(output_map).csv_column # "" THEN RowSet(row, Head(output_map).csv_column, EmptyStr)
                   ELSE row)

\* the classes of exception the model raises; all derive from Exception
ExceptionClasses == {"ConnectionError", "JSONDecodeError", "RuntimeError"}

\* faulty variant: except requests.ConnectionError as e:
StepCatchesNetworkOnly(exc) == exc = "ConnectionError"

\* except Exception as e: (the clause of the step's try)
StepCatches(exc) == exc \in ExceptionClasses

\* the except block of a step for an exception raised in the try block
Handler(step, row, exc, dbg) ==
    IF StepCatches(exc)
    THEN [row |-> BlankLoop(step.output_map, row),
          log |-> IF dbg THEN <<[l |-> "Exception", exc |-> exc]>> ELSE <<>>,
          raised |-> FALSE, exc |-> "none"]
    ELSE [row |-> row, log |-> <<>>, raised |-> TRUE, exc |-> exc]

\* if resp.status_code == 200: ... (decode, normalize, trace, extract)
OnOk(step, row, outcome, dbg) ==
    IF outcome.json.k = "malformed" THEN Handler(step, row, "JSONDecodeError", dbg)
    ELSE LET data == Normalize(outcome.json)
             ex == ExtractLoop(step.output_map, data, row, dbg)
         IN [row |-> ex.row,
             log |-> (IF dbg THEN <<[l |-> "Response200", val |-> data]>> ELSE <<>>) \o ex.log,
             raised |-> FALSE, exc |-> "none"]

\* faulty variant: a failed request only writes the trace line
OnFailedKeeps(step, row, outcome, dbg) ==
    [row |-> row,
     log |-> IF dbg THEN <<[l |-> "Failed", status |-> outcome.status]>> ELSE <<>>,
     raised |-> FALSE, exc |-> "none"]

\* else: (any other status)
OnFailed(step, row, outcome, dbg) ==
    [row |-> BlankLoop(step.output_map, row),
     log |-> IF dbg THEN <<[l |-> "Failed", status |-> outcome.status]>> ELSE <<>>,
     raised |-> FALSE, exc |-> "none"]

\* faulty variant: with tracing on, a failed request or an exception only writes its
\* trace line
OnResponseTraced(step, row, outcome, dbg) ==
    IF dbg /\ (outcome.kind = "raise" \/ outcome.status # 200)
    THEN [row |-> row, log |-> <<[l |-> "Failed", status |-> outcome.status]>>,
          raised |-> FALSE, exc |-> "none"]
    ELSE IF outcome.kind = "raise" THEN Handler(step, row, "ConnectionError", dbg)
    ELSE IF outcome.status = 200 THEN OnOk(step, row, outcome, dbg)
    ELSE OnFailed(step, row, outcome, dbg)

\* one step from the return (or the exception) of requests.get on
OnResponse(step, row, outcome, dbg) ==
    IF outcome.kind = "raise" THEN Handler(step, row, "ConnectionError", dbg)
    ELSE IF outcome.status = 200 THEN OnOk(step, row, outcome, dbg)
    ELSE OnFailed(step, row, outcome, dbg)

\* the trace lines written before the request
RequestLog(step, req, dbg) ==
    IF dbg
    THEN <<[l |-> "Step", name |-> step.name], [l |-> "Request", url |-> req.url]>>
         \o (IF req.params # <<>> THEN <<[l |-> "Params", params |-> req.params]>> ELSE <<>>)
    ELSE <<>>

\* faulty variant: a step whose request did not return 200 ends the loop (break)
NextStepBreak(idx, outcome) ==
    IF outcome.kind = "resp" /\ outcome.status = 200 /\ outcome.json.k # "malformed"
    THEN idx + 1 ELSE idx + 1000

\* faulty variant: a step whose request did not return 200 is run again
NextStepRetry(idx, outcome) ==
    IF outcome.kind = "resp" /\ outcome.status = 200 THEN idx + 1 ELSE idx

\* the step the for loop runs after step number idx
NextStep(idx, outcome) == idx + 1

RECURSIVE RunRow(_, _, _)
\* the row state of a run of the steps, in order, on the given outcomes, untraced
RunRow(steps, row, outcomes) ==
    IF steps = <<>> \/ outcomes = <<>> THEN row
    ELSE RunRow(Tail(steps), OnResponse(Head(steps), row, Head(outcomes), FALSE).row, Tail(outcomes))

\* ------------------------------------------------------------- scenarios
Mapping(field, col) == [json_field |-> field, csv_column |-> col]

\* GET /companies/{id}, id from company_id; score -> Score
StepCompany ==
    [name |-> "Company",
     url_template |-> <<Slash, Lit("companies"), Slash, Ph("id")>>,
     path_map |-> << <<"id", "company_id">> >>,
     query_map |-> <<>>,
     output_map |-> << Mapping(<<"score">>, "Score") >>]

\* GET /detail?language=en-US&min={Score}; a.b -> Rank, score -> Score
StepDetail ==
    [name |-> "Detail",
     url_template |-> <<Lit("detail")>>,
     path_map |-> <<>>,
     query_map |-> << <<"language", <<Lit("en-US")>> >>, <<"min", <<Ph("Score")>> >> >>,
     output_map |-> << Mapping(<<"a", ".", "b">>, "Rank"), Mapping(<<"score">>, "Score") >>]

\* a step whose output editor has half-filled lines
StepBlank ==
    [name |-> "Blank",
     url_template |-> <<Slash, Lit("alerts"), Slash, Ph("id")>>,
     path_map |-> << <<"id", "company_id">> >>,
     query_map |-> << <<"importance", <<>> >> >>,
     output_map |-> << Mapping(<<>>, "Extra"), Mapping(<<"score">>, ""), Mapping(<<"score">>, "Score") >>]

\* GET /rank/{s}?min={Score}&language=en-US, s from Score; a.b -> Rank
StepRank ==
    [name |-> "Rank",
     url_template |-> <<Slash, Lit("rank"), Slash, Ph("s")>>,
     path_map |-> << <<"s", "Score">> >>,
     query_map |-> << <<"min", <<Ph("Score")>> >>, <<"language", <<Lit("en-US")>> >> >>,
     output_map |-> << Mapping(<<"a", ".", "b">>, "Rank") >>]

\* GET /paths/{id}, id from company_id; a.b -> AB, a.c -> AC, score -> Score
StepPaths ==
    [name |-> "Paths",
     url_template |-> <<Slash, Lit("paths"), Slash, Ph("id")>>,
     path_map |-> << <<"id", "company_id">> >>,
     query_map |-> <<>>,
     output_map |-> << Mapping(<<"a", ".", "b">>, "AB"), Mapping(<<"a", ".", "c">>, "AC"),
                       Mapping(<<"score">>, "Score") >>]

Http(status, json) == [kind |-> "resp", status |-> status, json |-> json]
NetworkError == [kind |-> "raise", status |-> 0, json |-> Malformed]

BodyScore == Obj("score" :> Num(88))
BodyNested == Obj(("a" :> Obj("b" :> Num(7))) @@ ("score" :> Num(5)))

BodyAB == Obj("a" :> Obj("b" :> Num(7)))
BodyA1 == Obj("a" :> Num(1))
BodyScore5 == Obj("score" :> Num(5))

ApiSmall == {Http(200, BodyScore), Http(500, Malformed)}
ApiRich == {Http(200, BodyNested), Http(200, Malformed), Http(500, Malformed), NetworkError}
ApiShapes == {Http(200, BodyScore), Http(200, Arr(<<BodyScore>>)), Http(200, Arr(<<>>)),
              Http(200, Num(5)), Http(200, Malformed), Http(404, Malformed), NetworkError}
ApiPaths == {Http(200, BodyAB), Http(200, BodyA1), Http(200, Arr(<<BodyScore5>>)),
             Http(200, Arr(<<>>)), Http(200, Str("ok")), Http(404, Malformed)}

\* st.session_state.df.to_dict('records') of a table with the column company_id
Table(n) == [i \in 1..n |-> [company_id |-> Num(i)]]

\* the records of a table that already has a Score column
TableScored(n) == [i \in 1..n |-> [company_id |-> Num(i), Score |-> Num(3)]]

BaseUrls == {<<Lit("https://x.com")>>, <<Lit("https://x.com"), Slash>>}

Scenario(rows, steps, base, api, faulty, test) ==
    [rows |-> rows, steps |-> steps, base |-> base, api |-> api, faulty |-> faulty, test |-> test]

Scenarios ==
    {Scenario(Table(PoolRows), <<StepCompany>>, <<Lit("https://x.com"), Slash>>, ApiSmall, {}, FALSE)}
    \cup {Scenario(Table(RichRows), <<StepCompany, StepDetail>>, <<Lit("https://x.com")>>, ApiRich, {1}, FALSE)}
    \cup {Scenario(Table(RichRows), <<StepBlank>>, base, ApiShapes, faulty, FALSE) :
            base \in BaseUrls, faulty \in {{}, {2}}}
    \cup {Scenario(Table(TraceRows), <<StepCompany, StepDetail>>, <<Lit("https://x.com")>>, ApiRich, {}, TRUE)}
    \cup {Scenario(TableScored(RichRows), <<StepCompany, StepDetail, StepRank>>, <<Lit("https://x.com")>>,
                    ApiSmall, {}, FALSE)}
    \cup {Scenario(Table(RichRows), <<StepPaths>>, <<Lit("https://x.com")>>, ApiPaths, {}, FALSE)}

\* ------------------------------------------------------------- state
VARIABLES
    api_steps,   \* st.session_state.api_steps
    rows_input,  \* the rows of st.session_state.df
    base_url,    \* the Base URL text input
    env,         \* what the server may answer, which workers may fail, whether the test is run
    ui,          \* where the script is: "idle", "testing", "collect", "done", "aborted"
    task,        \* one call of process_single_row: 0 the test, i the future of row i
    row_data,    \* the row_data dict of each call
    results,     \* the results list of the batch
    overtook     \* history: some future completed while an earlier one had not

vars == <<api_steps, rows_input, base_url, env, ui, task, row_data, results, overtook>>

\* ThreadPoolExecutor(max_workers=5)
MaxWorkers == 5

N == Len(rows_input)
Tasks == 0..N
Rows == 1..N

\* the debug argument of the call
Debug(t) == t = 0
\* the row argument of the call: df.iloc[0] for the test, rows_input[i] for future i
Input(t) == IF t = 0 THEN rows_input[1] ELSE rows_input[t]

\* faulty variant: one dict shared by all calls
RowSlotShared(t) == 0

\* the dict a call works on: its own copy, row_data = dict(row)
RowSlot(t) == t

NoTask ==
    [status |-> "none", step |-> 1, log |-> <<>>, req |-> <<>>, resps |-> <<>>,
     prev |-> <<>>, calls |-> 0, ret |-> <<>>, exc |-> "none", ran |-> <<>>]

Init ==
    \E sc \in Scenarios :
        /\ api_steps = sc.steps
        /\ rows_input = sc.rows
        /\ base_url = sc.base
        /\ env = [api |-> sc.api, faulty |-> sc.faulty, test |-> sc.test]
        /\ ui = "idle"
        /\ task = [t \in 0..Len(sc.rows) |-> NoTask]
        /\ row_data = [t \in 0..Len(sc.rows) |-> <<>>]
        /\ results = <<>>
        /\ overtook = FALSE

Config == <<api_steps, rows_input, base_url>>

\* ------------------------------------------------------------- actions
\* the futures whose call is being run by a pool thread
Running == {i \in Rows : task[i].status \in {"running", "waiting"}}

\* faulty variant: a thread per submitted call
CanStartUnbounded(running) == TRUE

\* a pool of max_workers threads takes a queued call only while one is free
CanStart(running) == Cardinality(running) < MaxWorkers

\* faulty variant: results.insert(0, ...)
AddResultFirst(res, r) == <<r>> \o res

\* results.append(...)
AddResult(res, r) == Append(res, r)

\* future t completes now: is a future submitted before it still not complete
Overtakes(t) ==
    t \in Rows /\ \E j \in Rows : j < t /\ task[j].status \in {"queued", "running", "waiting"}

\* faulty variant: f.result() outside any try
BatchCatchesNothing(exc) == FALSE

\* except Exception as e: (the clause around f.result())
BatchCatches(exc) == exc \in ExceptionClasses

\* faulty variant: the error row without the copy of the input row
ErrorRowBare(orig, exc) == [Error |-> Str(exc)]

\* err = rows_input[i].copy(); err['Error'] = str(e)
ErrorRow(orig, exc) == RowSet(orig, "Error", Str(exc))

\* "Test First Row": process_single_row(first_row, ..., debug=True) in the script thread
ClickTest ==
    /\ ui = "idle"
    /\ env.test
    /\ task[0].status = "none"
    /\ ui' = "testing"
    /\ task' = [task EXCEPT ![0] = [NoTask EXCEPT !.status = "running"]]
    /\ row_data' = [row_data EXCEPT ![RowSlot(0)] = Input(0)]
    /\ UNCHANGED <<Config, env, results, overtook>>

\* "Process All Rows": results = [], every row submitted to the executor
ClickRun ==
    /\ ui = "idle"
    /\ ui' = "collect"
    /\ results' = <<>>
    /\ task' = [t \in Tasks |-> IF t \in Rows THEN [NoTask EXCEPT !.status = "queued"] ELSE task[t]]
    /\ UNCHANGED <<Config, env, row_data, overtook>>

\* a pool thread takes the oldest queued call and enters process_single_row
StartTask(i) ==
    /\ i \in Rows
    /\ task[i].status = "queued"
    /\ \A j \in Rows : j < i => task[j].status # "queued"
    /\ CanStart(Running)
    /\ task' = [task EXCEPT ![i].status = "running"]
    /\ row_data' = [row_data EXCEPT ![RowSlot(i)] = Input(i)]
    /\ UNCHANGED <<Config, env, ui, results, overtook>>

\* an exception raised in a call outside the try block of a step
WorkerFault(t) ==
    /\ t \in env.faulty
    /\ task[t].status = "running"
    /\ task' = [task EXCEPT ![t].status = "raised", ![t].exc = "RuntimeError"]
    /\ overtook' = (overtook \/ Overtakes(t))
    /\ UNCHANGED <<Config, env, ui, row_data, results>>

\* faulty variant: the URL and the query are built from the row argument
StepRowOriginal(t) == Input(t)

\* the row a step reads its path and query values from: row_data, which holds
\* what the steps before it wrote
StepRow(t) == row_data[RowSlot(t)]

\* a step up to requests.get: the URL, the query, the trace lines, the request;
\* ran is the history of the steps begun, each with the number of steps done
SendRequest(t) ==
    /\ t \in Tasks
    /\ task[t].status = "running"
    /\ LET step == api_steps[task[t].step]
           req == BuildRequest(step, StepRow(t), base_url)
       IN task' = [task EXCEPT ![t].status = "waiting",
                               ![t].req = req,
                               ![t].log = @ \o RequestLog(step, req, Debug(t)),
                               ![t].calls = @ + 1,
                               ![t].ran = Append(@, [step |-> task[t].step,
                                                     done |-> Len(task[t].resps)])]
    /\ UNCHANGED <<Config, env, ui, row_data, results, overtook>>

\* the rest of the step, from the answer of requests.get on; after the last
\* step the call returns debug_log or row_data
Receive(t) ==
    /\ t \in Tasks
    /\ task[t].status = "waiting"
    /\ \E outcome \in env.api :
         LET step == api_steps[task[t].step]
             before == row_data[RowSlot(t)]
             r == OnResponse(step, before, outcome, Debug(t))
             next == NextStep(task[t].step, outcome)
             last == next > Len(api_steps)
             log == task[t].log \o r.log
         IN IF r.raised
            THEN /\ task' = [task EXCEPT ![t].status = "raised", ![t].exc = r.exc, ![t].req = <<>>]
                 /\ ui' = IF t = 0 THEN "aborted" ELSE ui
                 /\ overtook' = (overtook \/ Overtakes(t))
                 /\ UNCHANGED row_data
            ELSE /\ row_data' = [row_data EXCEPT ![RowSlot(t)] = r.row]
                 /\ task' = [task EXCEPT ![t].status = IF last THEN "returned" ELSE "running",
                                         ![t].step = next,
                                         ![t].log = log,
                                         ![t].req = <<>>,
                                         ![t].resps = Append(@, outcome),
                                         ![t].prev = before,
                                         ![t].ret = IF ~last THEN <<>>
                                                    ELSE IF Debug(t) THEN log ELSE r.row]
                 /\ ui' = IF t = 0 /\ last THEN "idle" ELSE ui
                 /\ overtook' = (overtook \/ (last /\ Overtakes(t)))
    /\ UNCHANGED <<Config, env, results>>

\* one turn of "for i, f in enumerate(futures)": f.result() of the next future
Collect ==
    /\ ui = "collect"
    /\ Len(results) < N
    /\ LET i == Len(results) + 1 IN
         /\ task[i].status \in {"returned", "raised"}
         /\ IF task[i].status = "returned"
            THEN results' = AddResult(results, task[i].ret) /\ ui' = ui
            ELSE IF BatchCatches(task[i].exc)
            THEN results' = AddResult(results, ErrorRow(rows_input[i], task[i].exc)) /\ ui' = ui
            ELSE results' = results /\ ui' = "aborted"
    /\ UNCHANGED <<Config, env, task, row_data, overtook>>

\* the loop is over: the executor shuts down, final_df = pd.DataFrame(results)
Finish ==
    /\ ui = "collect"
    /\ Len(results) = N
    /\ ui' = "done"
    /\ UNCHANGED <<Config, env, task, row_data, results, overtook>>

Next ==
    \/ ClickTest
    \/ ClickRun
    \/ \E i \in Rows : StartTask(i)
    \/ \E t \in Tasks : WorkerFault(t)
    \/ \E t \in Tasks : SendRequest(t)
    \/ \E t \in Tasks : Receive(t)
    \/ Collect
    \/ Finish

Spec == Init /\ [][Next]_vars

\* every thread that can run does run, and every request is answered
FairSpec ==
    /\ Spec
    /\ WF_vars(\E i \in Rows : StartTask(i))
    /\ WF_vars(\E t \in Tasks : SendRequest(t))
    /\ WF_vars(\E t \in Tasks : Receive(t))
    /\ WF_vars(Collect)
    /\ WF_vars(Finish)

\* ------------------------------------------------------------- properties
Range(q) == {q[i] : i \in 1..Len(q)}

\* the columns a step writes on a failure: its non-empty csv_column values
DestCols(step) == {m.csv_column : m \in Range(step.output_map)} \ {""}

\* what processing row i yields: the error-marker row of a call that raised,
\* else the row state of its steps on the answers its own requests got
OutcomeOf(i) ==
    IF task[i].status = "raised" THEN ErrorRow(rows_input[i], task[i].exc)
    ELSE RunRow(api_steps, rows_input[i], task[i].resps)

\* C1: whatever the completion order of the workers, the results list holds at
\* index i the outcome of row i (enriched row or error-marker row), and the
\* finished batch has one result per input row.
C1_OrderPreserved ==
    /\ Len(results) <= N
    /\ \A i \in 1..Len(results) : results[i] = OutcomeOf(i)
    /\ (ui = "done" => Len(results) = N)

\* C1 witness: a finished batch of distinct results in which a later row's
\* worker completed before an earlier row's
C1_Witness ==
    /\ ui = "done"
    /\ overtook
    /\ N >= 2
    /\ \E i, j \in Rows : results[i] # results[j]

\* C3: a call that raised leaves at its index the input row plus the Error
\* column, every other row still gets its result, and the batch is not aborted.
C3_ErrorRowSubstituted ==
    /\ ui # "aborted"
    /\ \A i \in 1..Len(results) :
         task[i].status = "raised" =>
           /\ DOMAIN results[i] = DOMAIN rows_input[i] \cup {"Error"}
           /\ \A c \in DOMAIN rows_input[i] \ {"Error"} : results[i][c] = rows_input[i][c]
           /\ results[i]["Error"] = Str(task[i].exc)
    /\ (ui = "done" => Len(results) = N)

\* C3 witness: a finished batch where a call raised after a step had already
\* enriched its row_data, next to a row that returned normally
C3_Witness ==
    /\ ui = "done"
    /\ \E i, j \in Rows :
         /\ task[i].status = "raised"
         /\ task[i].resps # <<>>
         /\ row_data[RowSlot(i)] # rows_input[i]
         /\ task[j].status = "returned"
         /\ results[j] = task[j].ret

\* C5: never more than the pool size of rows in flight, and every row is
\* dispatched: once the batch is done no call is left unstarted.
C5_BoundedPool ==
    /\ Cardinality(Running) <= MaxWorkers
    /\ (ui \in {"collect", "done"} => \A i \in Rows : task[i].status # "none")
    /\ (ui = "done" => \A i \in Rows : task[i].status \in {"returned", "raised"})

\* C5 witness: the pool is full while a row waits in the queue
C5_Witness ==
    /\ Cardinality(Running) = MaxWorkers
    /\ \E i \in Rows : task[i].status = "queued"

\* the calls that have entered process_single_row
Entered == {t \in Tasks : task[t].status \in {"running", "waiting", "returned", "raised"}}

\* the answer to the request of the step call t executed last, and that step
LastOutcome(t) == task[t].resps[Len(task[t].resps)]
LastStep(t) == api_steps[Len(task[t].resps)]
Non200(o) == o.kind = "resp" /\ o.status # 200

\* C2 as amended: after a step whose request returned a non-200 status,
\* each of its non-empty csv_column columns is "", no column is removed, and
\* every column that is not a csv_column of that step keeps the value it had
\* before the step.
C2_FailedStepBlanksOnlyItsColumns ==
    \A t \in Entered :
      (task[t].resps # <<>> /\ Non200(LastOutcome(t))) =>
        LET cur == row_data[RowSlot(t)]
            was == task[t].prev
            dest == DestCols(LastStep(t))
        IN /\ DOMAIN cur = DOMAIN was \cup dest
           /\ \A c \in dest : cur[c] = EmptyStr
           /\ \A c \in DOMAIN was \ dest : cur[c] = was[c]

\* C2 as stated: after such a step its csv_column columns are "" and every
\* column the row had before the step, those of earlier steps included, is
\* unchanged.
C2_AsStated ==
    \A t \in Entered :
      (task[t].resps # <<>> /\ Non200(LastOutcome(t))) =>
        LET cur == row_data[RowSlot(t)]
            was == task[t].prev
        IN /\ \A c \in DestCols(LastStep(t)) : c \in DOMAIN cur /\ cur[c] = EmptyStr
           /\ \A c \in DOMAIN was : c \in DOMAIN cur /\ cur[c] = was[c]

\* C2 witness: the second step failed after the first had written a value
\* into a column the second step also writes, and into none of the others
C2_Witness ==
    \E t \in Entered :
      /\ Len(task[t].resps) = 2
      /\ Non200(LastOutcome(t))
      /\ \E c \in DestCols(LastStep(t)) \cap DOMAIN task[t].prev : task[t].prev[c] # EmptyStr
      /\ \E c \in DOMAIN task[t].prev \ DestCols(LastStep(t)) : TRUE

AllFailed(k) ==
    /\ task[k].status = "returned"
    /\ \A n \in 1..Len(task[k].resps) : Non200(task[k].resps[n])

\* C4: under every interleaving the row state of a worker is a function of its
\* own input row, the pipeline and the answers to its own requests; a row all
\* of whose requests returned 500 ends with its output columns "", and the
\* batch still returns one row per input row, each the outcome of its own row.
C4_RowsIndependent ==
    /\ \A i \in Rows \cap Entered :
         row_data[RowSlot(i)] = RunRow(api_steps, rows_input[i], task[i].resps)
    /\ ui = "done" =>
         /\ Len(results) = N
         /\ \A k \in Rows : AllFailed(k) =>
              /\ \A n \in 1..Len(api_steps) : \A c \in DestCols(api_steps[n]) : results[k][c] = EmptyStr
              /\ \A j \in Rows \ {k} : results[j] = OutcomeOf(j)

\* C4 witness: a finished batch where all requests of one row returned 500
\* and another row got a value from a 200 answer
C4_Witness ==
    /\ ui = "done"
    /\ \E k, j \in Rows :
         /\ k # j
         /\ AllFailed(k)
         /\ task[j].status = "returned"
         /\ \E c \in DOMAIN results[j] \ DOMAIN rows_input[j] : results[j][c] # EmptyStr

\* C6 as stated: the columns of a returned row do not depend on the outcomes
\* of its steps: any two calls on rows with the same columns return rows with
\* the same columns.
C6_ColumnSetFixed ==
    \A a, b \in Tasks :
      (/\ task[a].status = "returned"
       /\ task[b].status = "returned"
       /\ DOMAIN Input(a) = DOMAIN Input(b))
      => DOMAIN row_data[RowSlot(a)] = DOMAIN row_data[RowSlot(b)]

\* C7: a call has issued one GET per step it has executed or is executing,
\* whatever the answers were, so a returned call issued one per pipeline step.
C7_OneRequestPerStep ==
    \A t \in Entered :
      /\ task[t].calls = (task[t].step - 1) + (IF task[t].status = "waiting" THEN 1 ELSE 0)
      /\ task[t].calls = Len(task[t].resps) + (IF task[t].status = "waiting" THEN 1 ELSE 0)
      /\ (task[t].status = "returned" => task[t].calls = Len(api_steps))

\* C7 witness: a returned call with one GET per step although one request
\* returned a non-200 status and another raised
C7_Witness ==
    \E t \in Tasks :
      /\ task[t].status = "returned"
      /\ task[t].calls = 2
      /\ \E n \in 1..2 : Non200(task[t].resps[n])
      /\ \E n \in 1..2 : task[t].resps[n].kind = "raise"

\* the request raised, or the 200 body was not JSON
Throws(o) == o.kind = "raise" \/ (o.kind = "resp" /\ o.status = 200 /\ o.json.k = "malformed")

\* C8: an exception raised inside a step never leaves process_single_row: the
\* only calls that raise are those hit outside a step, after a step that threw
\* the step's output columns are "", and a call that has its last answer has
\* returned.
C8_StepFailureContained ==
    /\ ui # "aborted"
    /\ \A t \in Tasks :
         /\ task[t].status = "raised" => (t \in env.faulty /\ task[t].exc = "RuntimeError")
         /\ (t \in Entered /\ task[t].resps # <<>> /\ Throws(LastOutcome(t))) =>
              \A c \in DestCols(LastStep(t)) :
                 c \in DOMAIN row_data[RowSlot(t)] /\ row_data[RowSlot(t)][c] = EmptyStr
         /\ (task[t].status # "raised" /\ Len(task[t].resps) = Len(api_steps)) =>
              task[t].status = "returned"

\* C8 witness: a call returned although one request raised and one 200 body
\* was malformed, after an earlier step had put a value in the row
C8_Witness ==
    \E t \in Tasks :
      /\ task[t].status = "returned"
      /\ \E n \in 1..Len(task[t].resps) : task[t].resps[n].kind = "raise"
      /\ \E n \in 1..Len(task[t].resps) : task[t].resps[n].kind = "resp" /\ Throws(task[t].resps[n])

\* C9: the row state of the traced call (the test) is the one the untraced
\* steps compute from the same row and answers, and equals that of the batch
\* call on the same row whenever both got the same answers.
C9_TraceDoesNotChangeRow ==
    \A t \in Entered :
      Debug(t) =>
        /\ row_data[RowSlot(t)] = RunRow(api_steps, Input(t), task[t].resps)
        /\ \A u \in Entered :
             (~Debug(u) /\ Input(u) = Input(t) /\ task[u].resps = task[t].resps)
             => row_data[RowSlot(u)] = row_data[RowSlot(t)]

\* C9 witness: the traced and the untraced call on the first row both
\* returned, on the same answers, a failure among them, and the trace is not empty
C9_Witness ==
    /\ N >= 1
    /\ task[0].status = "returned"
    /\ task[1].status = "returned"
    /\ task[0].resps = task[1].resps
    /\ task[0].log # <<>>
    /\ task[1].log = <<>>
    /\ \E n \in 1..Len(task[0].resps) : Non200(task[0].resps[n]) \/ Throws(task[0].resps[n])
    /\ \E n \in 1..Len(task[0].resps) : ~Non200(task[0].resps[n]) /\ ~Throws(task[0].resps[n])

\* C10: with every request answered and every thread scheduled, a started
\* batch ends with one row per input row and no error thrown out of it.
C10_BatchTerminates == (ui = "collect") ~> (ui = "done" /\ Len(results) = N)

\* C10 witness: a finished batch with an error-marker row and an empty cell
C10_Witness ==
    /\ ui = "done"
    /\ Len(results) = N
    /\ \E i \in Rows : "Error" \in DOMAIN results[i]
    /\ \E i \in Rows : \E c \in DOMAIN results[i] : results[i][c] = EmptyStr

\* C11: a call begins the steps of the pipeline in pipeline order, each once,
\* each only after the writes of the one before are in row_data, and a step
\* that failed or threw is followed by the next one: a returned call has run
\* them all.
C11_StepsInOrder ==
    \A t \in Entered :
      /\ Len(task[t].ran) <= Len(api_steps)
      /\ \A n \in 1..Len(task[t].ran) :
           /\ task[t].ran[n].step = n
           /\ task[t].ran[n].done = n - 1
      /\ row_data[RowSlot(t)] = RunRow(api_steps, Input(t), task[t].resps)
      /\ (task[t].status = "running" => Len(task[t].ran) = Len(task[t].resps))
      /\ (task[t].status = "waiting" => Len(task[t].ran) = Len(task[t].resps) + 1)
      /\ (task[t].status = "returned" =>
            /\ Len(task[t].ran) = Len(api_steps)
            /\ Len(task[t].resps) = Len(api_steps))

\* C11 witness: a returned call ran both steps of its pipeline although the
\* first returned a non-200 status and the second threw
C11_Witness ==
    \E t \in Tasks :
      /\ task[t].status = "returned"
      /\ Len(api_steps) = 2
      /\ Len(task[t].ran) = 2
      /\ Non200(task[t].resps[1])
      /\ Throws(task[t].resps[2])

\* the answer was a 200 with a JSON body
Ok200(o) == o.kind = "resp" /\ o.status = 200 /\ o.json.k # "malformed"

\* the mappings of a step with a json_field and a csv_column
FullMappings(step) ==
    {n \in 1..Len(step.output_map) :
        step.output_map[n].json_field # <<>> /\ step.output_map[n].csv_column # ""}

\* the columns a step wrote, given the answer to its request
WroteCols(step, o) ==
    IF Ok200(o) THEN {step.output_map[n].csv_column : n \in FullMappings(step)} ELSE DestCols(step)

Max(S) == CHOOSE x \in S : \A y \in S : y <= x

\* the value a step wrote into column c: "" when it failed, else the lookup
\* of the last mapping to c
WrittenValue(step, o, c) ==
    IF ~Ok200(o) THEN EmptyStr
    ELSE LET n == Max({k \in FullMappings(step) : step.output_map[k].csv_column = c})
         IN Walk(Normalize(o.json), Split(step.output_map[n].json_field))

\* the last step before step j of call t that wrote column c, 0 if none did
LatestWriter(t, j, c) ==
    LET W == {i \in 1..(j - 1) : c \in WroteCols(api_steps[i], task[t].resps[i])}
    IN IF W = {} THEN 0 ELSE Max(W)

\* what step j of call t must see: for each column the value its latest
\* writer wrote, or the input value if no step wrote it
Visible(t, j) ==
    LET cols == DOMAIN Input(t) \cup
                UNION {WroteCols(api_steps[i], task[t].resps[i]) : i \in 1..(j - 1)}
    IN [c \in cols |->
          IF LatestWriter(t, j, c) = 0 THEN Input(t)[c]
          ELSE WrittenValue(api_steps[LatestWriter(t, j, c)], task[t].resps[LatestWriter(t, j, c)], c)]

\* C12: the URL and the query of a step in flight are those built from, for
\* every column, the value written by the latest earlier step that wrote it
\* ("" if that step failed), and from the input value only for columns no
\* earlier step wrote.
C12_LaterStepsSeeEarlierWrites ==
    \A t \in Tasks :
      task[t].status = "waiting" =>
        task[t].req = BuildRequest(api_steps[task[t].step], Visible(t, task[t].step), base_url)

\* the columns step j reads through a path parameter or a {column} query spec
ReadCols(step) ==
    {step.path_map[n][2] : n \in 1..Len(step.path_map)}
    \cup {step.query_map[n][2][FirstPh(step.query_map[n][2])].s :
            n \in {k \in 1..Len(step.query_map) : FirstPh(step.query_map[k][2]) # 0}}

\* C12 witness: the third step is in flight; the column it reads through a
\* path parameter and a query spec was in the input row, was given a value by
\* the first step and "" by the failed second step, and the request has the
\* empty path segment and no such query key
C12_Witness ==
    \E t \in Tasks :
      /\ task[t].status = "waiting"
      /\ task[t].step = 3
      /\ "Score" \in ReadCols(api_steps[3])
      /\ Input(t)["Score"] # EmptyStr
      /\ Ok200(task[t].resps[1])
      /\ Non200(task[t].resps[2])
      /\ LatestWriter(t, 3, "Score") = 2
      /\ task[t].req.url = RStrip(base_url) \o <<Slash, Lit("rank"), Slash>>
      /\ task[t].req.params = << <<"language", <<Lit("en-US")>> >> >>

\* C13 as stated: a mapping whose json_field or csv_column is empty is
\* ignored on every outcome: after a step, whatever the answer was, every
\* column that is not the csv_column of a mapping with both fields is as the
\* step found it (absent columns stay absent).
C13_HalfMappingIgnored ==
    \A t \in Entered :
      Len(task[t].resps) > 0 =>
        LET step == LastStep(t)
            full == {step.output_map[n].csv_column : n \in FullMappings(step)}
            was == task[t].prev
            now == row_data[RowSlot(t)]
        IN \A c \in DOMAIN now \ full : c \in DOMAIN was /\ now[c] = was[c]

\* the normalized body of the lookup rule: the first element of a non-empty
\* sequence, the empty mapping for an empty sequence or a scalar, a mapping
\* itself
NormalizedBody(body) ==
    CASE body.k = "arr" /\ Len(body.q) > 0 -> body.q[1]
      [] body.k = "arr" /\ Len(body.q) = 0 -> EmptyObj
      [] body.k = "obj" -> body
      [] OTHER -> EmptyObj

RECURSIVE Lookup(_, _)
\* the dotted-path lookup rule: "" as soon as the current value is not a
\* mapping or lacks the segment
Lookup(val, segs) ==
    IF segs = <<>> THEN val
    ELSE IF val.k # "obj" THEN EmptyStr
    ELSE IF Head(segs) \notin DOMAIN val.f THEN EmptyStr
    ELSE Lookup(val.f[Head(segs)], Tail(segs))

\* C14: after a step whose request returned 200 with a JSON body, the
\* column of every mapping with a json_field and a csv_column holds the
\* dotted-path lookup of the json_field in the normalized body (the last
\* mapping to a column decides); and the extraction gives 7 for a.b and "" for
\* a.c in {"a":{"b":7}}, "" for a.b in {"a":1}, 5 for score in [{"score":5}]
\* and "" for score in [].
C14_ExtractedValueIsLookup ==
    /\ \A t \in Entered :
         (Len(task[t].resps) > 0 /\ Ok200(LastOutcome(t))) =>
           LET step == LastStep(t)
               body == LastOutcome(t).json
               now == row_data[RowSlot(t)]
           IN \A c \in {step.output_map[n].csv_column : n \in FullMappings(step)} :
                LET n == Max({k \in FullMappings(step) : step.output_map[k].csv_column = c})
                IN /\ c \in DOMAIN now
                   /\ now[c] = Lookup(NormalizedBody(body), Split(step.output_map[n].json_field))
    /\ Walk(Normalize(BodyAB), Split(<<"a", ".", "b">>)) = Num(7)
    /\ Walk(Normalize(BodyAB), Split(<<"a", ".", "c">>)) = EmptyStr
    /\ Walk(Normalize(BodyA1), Split(<<"a", ".", "b">>)) = EmptyStr
    /\ Walk(Normalize(Arr(<<BodyScore5>>)), Split(<<"score">>)) = Num(5)
    /\ Walk(Normalize(Arr(<<>>)), Split(<<"score">>)) = EmptyStr

\* C14 witness: one returned row took 7 for a.b and "" for a.c from
\* {"a":{"b":7}}, another took 5 for score from [{"score":5}]
C14_Witness ==
    \E t, u \in Tasks :
      /\ task[t].status = "returned"
      /\ task[u].status = "returned"
      /\ LastOutcome(t) = Http(200, BodyAB)
      /\ row_data[RowSlot(t)]["AB"] = Num(7)
      /\ row_data[RowSlot(t)]["AC"] = EmptyStr
      /\ LastOutcome(u) = Http(200, Arr(<<BodyScore5>>))
      /\ row_data[RowSlot(u)]["Score"] = Num(5)
      /\ row_data[RowSlot(u)]["AB"] = EmptyStr
====
